---- MODULE Spec2Model ----
(***************************************************************************)
(* Request handling of the recipe API: RecipeViewSet, the tag / ingredient *)
(* viewsets (mixin based and hand written), and the "me" views of the user *)
(* API.  The state is the relational store (users, recipes, tags,          *)
(* ingredients and the two many-to-many relations) and the outcome of the  *)
(* request handled last; every action is one HTTP request handled to       *)
(* completion (one synchronous request at a time).                         *)
(*                                                                         *)
(* A handler is a function of the store and of the request: it yields the  *)
(* response and the store the request leaves, [status, body, store].       *)
(* List bodies are not paginated (every result fits one page) and requests *)
(* carry no `search` parameter.                                            *)
(***************************************************************************)
EXTENDS Integers, Sequences, FiniteSets, TLC

\* Bounds of the model: how many rows each id sequence may hand out.
MaxRecipes == 2
MaxTags == 2
MaxIngredients == 1

Users == {"u1", "u2"}
NoToken == "no-token"
BadToken == "bad-token"
Anonymous == {NoToken, BadToken}
Credentials == Users \cup Anonymous

Kinds == {"tag", "ingredient"}
AttrNames == {"a", "b"}
ProfileNames == {"n1", "n2", "n3"}
Times == {1, 2}
Prices == {1, 2}
NoImage == ""
ImageFile == "img.png"
TextFile == "notes.txt"

VARIABLES
    users,        \* user id -> the user's record
    recipes,      \* recipe id -> row of Recipe, with its two m2m relations
    attrs,        \* kind -> (id -> row of Tag / Ingredient)
    nextRecipe,   \* next id of the recipe id sequence
    nextAttr,     \* kind -> next id of the tag / ingredient id sequence
    last          \* the request handled last: its operation and status

vars == <<users, recipes, attrs, nextRecipe, nextAttr, last>>

MaxAttr(kind) == IF kind = "tag" THEN MaxTags ELSE MaxIngredients

----------------------------------------------------------------------------
(* Requests and responses *)

NoParam == [given |-> FALSE, text |-> <<>>]
Param(t) == [given |-> TRUE, text |-> t]

\* A request body: `fields` are the keys it carries.  `user` is a key no
\* serializer declares (a body may still carry it).
NoData == [fields |-> {}, title |-> "", time_minutes |-> 0, price |-> 0,
           tags |-> <<>>, ingredients |-> <<>>, name |-> "", image |-> "",
           user |-> ""]

HTTP_200_OK == 200
HTTP_201_CREATED == 201
HTTP_204_NO_CONTENT == 204
HTTP_400_BAD_REQUEST == 400
HTTP_401_UNAUTHORIZED == 401
HTTP_404_NOT_FOUND == 404
HTTP_405_METHOD_NOT_ALLOWED == 405
HTTP_500_INTERNAL_SERVER_ERROR == 500

\* The store, as a value.
Store ==
    [users |-> users, recipes |-> recipes, attrs |-> attrs,
     nextRecipe |-> nextRecipe, nextAttr |-> nextAttr]

\* A response that leaves the store as it is.
Response(status, body) == [status |-> status, body |-> body, store |-> Store]

\* A response with the store the request leaves.
Saved(status, body, store) == [status |-> status, body |-> body, store |-> store]

\* A dispatch that runs the handler whoever asks.
dispatch_open(auth, result) == result

\* TokenAuthentication: the principal is the user of the token, if any.
IsAuthenticated(auth) == auth \in Users

\* authentication_classes = [TokenAuthentication] and permission_classes =
\* [IsAuthenticated]: the handler runs for an authenticated principal only.
dispatch(auth, result) ==
    IF IsAuthenticated(auth) THEN result
    ELSE Response(HTTP_401_UNAUTHORIZED, <<>>)

----------------------------------------------------------------------------
(* The store *)

Init ==
    /\ users = [u \in Users |-> [name |-> "n1"]]
    /\ recipes = <<>>
    /\ attrs = [k \in Kinds |-> <<>>]
    /\ nextRecipe = 1
    /\ nextAttr = [k \in Kinds |-> 1]
    /\ last = [op |-> "none", status |-> 0]

Rel(row, kind) == IF kind = "tag" THEN row.tags ELSE row.ingredients

\* Functions as sets of rows: restriction and extension by one row.
Restrict(f, S) == [i \in S |-> f[i]]
Put(f, i, row) == [j \in DOMAIN f \cup {i} |-> IF j = i THEN row ELSE f[j]]

\* One request: the handler's outcome becomes the state.  The id sequences
\* are capped by the bounds.
Handle(op, result) ==
    /\ result.store.nextRecipe <= MaxRecipes + 1
    /\ \A k \in Kinds : result.store.nextAttr[k] <= MaxAttr(k) + 1
    /\ users' = result.store.users
    /\ recipes' = result.store.recipes
    /\ attrs' = result.store.attrs
    /\ nextRecipe' = result.store.nextRecipe
    /\ nextAttr' = result.store.nextAttr
    /\ last' = [op |-> op, status |-> result.status]

----------------------------------------------------------------------------
(* Serializers (recipe/serializers.py, user/serializers.py) *)

RecipeFields == {"title", "time_minutes", "price", "tags", "ingredients"}
RecipeRequired == {"title", "time_minutes", "price"}

\* RecipeDetailSerializer.is_valid: the required fields are present unless
\* the update is partial, and a title that is given is not blank.
RecipeSerializer_is_valid(data, partial) ==
    /\ partial \/ RecipeRequired \subseteq data.fields
    /\ "title" \in data.fields => data.title # ""

\* TagSerializer / IngredientSerializer: one writable field, `name`.
AttrSerializer_is_valid(data, partial) ==
    /\ partial \/ "name" \in data.fields
    /\ "name" \in data.fields => data.name # ""

\* UserSerializer: `name` is writable; the row updated is the instance given.
UserSerializer_is_valid(data, partial) ==
    /\ partial \/ "name" \in data.fields
    /\ "name" \in data.fields => data.name # ""

\* RecipeImageSerializer: the payload must be an image file.
RecipeImageSerializer_is_valid(data) ==
    "image" \in data.fields /\ data.image = ImageFile

\* The rows of `kind` named by `names` for user u, created where missing:
\* [table, next, ids].
RECURSIVE get_or_create(_, _, _, _)
get_or_create(table, next, u, names) ==
    IF names = <<>> THEN [table |-> table, next |-> next, ids |-> {}]
    ELSE LET found == {i \in DOMAIN table :
                          table[i].user = u /\ table[i].name = Head(names)}
             id == IF found # {} THEN CHOOSE i \in found : TRUE ELSE next
             t2 == IF found # {} THEN table
                   ELSE Put(table, next, [user |-> u, name |-> Head(names)])
             n2 == IF found # {} THEN next ELSE next + 1
             rest == get_or_create(t2, n2, u, Tail(names))
         IN  [table |-> rest.table, next |-> rest.next,
              ids |-> rest.ids \cup {id}]

RecipeRep(table, i) ==
    [id |-> i, title |-> table[i].title,
     time_minutes |-> table[i].time_minutes, price |-> table[i].price,
     image |-> table[i].image, tags |-> table[i].tags,
     ingredients |-> table[i].ingredients]

AttrRep(table, i) == [id |-> i, name |-> table[i].name]

UserRep(table, u) == [email |-> u, name |-> table[u].name]

----------------------------------------------------------------------------
(* recipe/filters.py *)

\* NumberInFilter(field_name='tags__id', lookup_expr='in') and its twin for
\* ingredients: an empty value does not filter.
RecipeFilter(qs, tagIds, ingredientIds) ==
    {i \in qs :
        /\ tagIds # {} => recipes[i].tags \cap tagIds # {}
        /\ ingredientIds # {} => recipes[i].ingredients \cap ingredientIds # {}}

\* The names recipe/filters.py binds.
recipe_filters == {"NumberInFilter", "RecipeFilter"}

----------------------------------------------------------------------------
(* RecipeViewSet *)

\* filterset_class = my_filters.RecipeViewSetFilter
filterset_class == "RecipeViewSetFilter"

\* ordering_fields = ['id', 'time_minutes' 'price']: no comma between the
\* last two literals, which Python joins into one.
ordering_fields == {"id", "time_minutes" \o "price"}

\* ordering = ['-id']
Term(desc, field) == [desc |-> desc, field |-> field]
ordering == <<Term(TRUE, "id")>>

RecipeModelFields == {"id", "title", "time_minutes", "price"}

\* The query parameters of a recipe list.
Query(tagIds, ingredientIds, ord) ==
    [tags |-> tagIds, ingredients |-> ingredientIds, ordering |-> ord]

\* A queryset that is not filtered on the requesting user.
RecipeViewSet_get_queryset_unscoped(u) == DOMAIN recipes

RecipeViewSet_get_queryset(u) == {i \in DOMAIN recipes : recipes[i].user = u}

\* OrderingFilter.get_ordering: the terms of the `ordering` parameter that
\* name a declared ordering field, or the default when none is left.
get_ordering(param) ==
    LET valid(t) == t.field \in ordering_fields
        kept == SelectSeq(param, valid)
    IN  IF kept # <<>> THEN kept ELSE ordering

Key(i, field) ==
    CASE field = "id" -> i
      [] field = "time_minutes" -> recipes[i].time_minutes
      [] field = "price" -> recipes[i].price
      [] OTHER -> 0

\* i comes before j under the order_by terms (ties fall to the next term).
RECURSIVE Before(_, _, _)
Before(i, j, terms) ==
    IF terms = <<>> THEN FALSE
    ELSE LET a == Key(i, Head(terms).field)
             b == Key(j, Head(terms).field)
         IN  IF a = b THEN Before(i, j, Tail(terms))
             ELSE IF Head(terms).desc THEN a > b ELSE a < b

Perms(S) ==
    {s \in [1..Cardinality(S) -> S] :
        \A a, b \in 1..Cardinality(S) : a # b => s[a] # s[b]}

order_by(qs, terms) ==
    CHOOSE s \in Perms(qs) :
        \A a, b \in DOMAIN s : a < b => ~Before(s[b], s[a], terms)

\* filter_queryset of the recipe list: OrderingFilter, SearchFilter (no
\* search term), DjangoFilterBackend.  [ok, ids]: ok is FALSE when the
\* request ends in an unhandled exception.
\* The filter set the view names is not one recipe/filters.py defines
\* (the lookup my_filters.RecipeViewSetFilter raises AttributeError), so a
\* request whose tags / ingredients values need it cannot be served.
RecipeViewSet_filter_queryset(qs, q) ==
    LET terms == get_ordering(q.ordering)
        orderable == \A k \in DOMAIN terms : terms[k].field \in RecipeModelFields
        needsFilterset == q.tags # {} \/ q.ingredients # {}
    IN  IF ~orderable THEN [ok |-> FALSE, ids |-> <<>>]
        ELSE IF ~needsFilterset THEN [ok |-> TRUE, ids |-> order_by(qs, terms)]
        ELSE IF filterset_class \in recipe_filters
             THEN [ok |-> TRUE,
                   ids |-> order_by(RecipeFilter(qs, q.tags, q.ingredients), terms)]
             ELSE [ok |-> FALSE, ids |-> <<>>]

\* GET /recipes/
RecipeViewSet_list(u, q) ==
    LET res == RecipeViewSet_filter_queryset(RecipeViewSet_get_queryset(u), q)
    IN  IF ~res.ok THEN Response(HTTP_500_INTERNAL_SERVER_ERROR, <<>>)
        ELSE Response(HTTP_200_OK,
                      [k \in DOMAIN res.ids |-> RecipeRep(recipes, res.ids[k])])

\* perform_create: serializer.save(user=self.request.user)
perform_create(u, data, tagIds, ingredientIds) ==
    [user |-> u, title |-> data.title, time_minutes |-> data.time_minutes,
     price |-> data.price, image |-> NoImage,
     tags |-> tagIds, ingredients |-> ingredientIds]

\* POST /recipes/
RecipeViewSet_create(u, data) ==
    LET t == get_or_create(attrs["tag"], nextAttr["tag"], u, data.tags)
        g == get_or_create(attrs["ingredient"], nextAttr["ingredient"], u,
                           data.ingredients)
        row == perform_create(u, data, t.ids, g.ids)
        rs == Put(recipes, nextRecipe, row)
    IN  IF ~RecipeSerializer_is_valid(data, FALSE)
        THEN Response(HTTP_400_BAD_REQUEST, <<>>)
        ELSE Saved(HTTP_201_CREATED, <<RecipeRep(rs, nextRecipe)>>,
                   [Store EXCEPT !.recipes = rs,
                                 !.attrs = [attrs EXCEPT !["tag"] = t.table,
                                                         !["ingredient"] = g.table],
                                 !.nextRecipe = nextRecipe + 1,
                                 !.nextAttr = [nextAttr EXCEPT !["tag"] = t.next,
                                                               !["ingredient"] = g.next]])

\* get_object: the row with this pk in the requester's queryset, or 404.
RecipeViewSet_get_object(u, pk) == pk \in RecipeViewSet_get_queryset(u)

\* GET /recipes/{pk}/
RecipeViewSet_retrieve(u, pk) ==
    IF ~RecipeViewSet_get_object(u, pk) THEN Response(HTTP_404_NOT_FOUND, <<>>)
    ELSE Response(HTTP_200_OK, <<RecipeRep(recipes, pk)>>)

\* PUT / PATCH /recipes/{pk}/
RecipeViewSet_update(u, pk, data, partial) ==
    LET t == IF "tags" \in data.fields
             THEN get_or_create(attrs["tag"], nextAttr["tag"], u, data.tags)
             ELSE [table |-> attrs["tag"], next |-> nextAttr["tag"],
                   ids |-> recipes[pk].tags]
        g == IF "ingredients" \in data.fields
             THEN get_or_create(attrs["ingredient"], nextAttr["ingredient"], u,
                                data.ingredients)
             ELSE [table |-> attrs["ingredient"], next |-> nextAttr["ingredient"],
                   ids |-> recipes[pk].ingredients]
        old == recipes[pk]
        row == [user |-> old.user,
                title |-> IF "title" \in data.fields THEN data.title ELSE old.title,
                time_minutes |-> IF "time_minutes" \in data.fields
                                 THEN data.time_minutes ELSE old.time_minutes,
                price |-> IF "price" \in data.fields THEN data.price ELSE old.price,
                image |-> old.image,
                tags |-> t.ids, ingredients |-> g.ids]
        rs == [recipes EXCEPT ![pk] = row]
    IN  IF ~RecipeViewSet_get_object(u, pk) THEN Response(HTTP_404_NOT_FOUND, <<>>)
        ELSE IF ~RecipeSerializer_is_valid(data, partial)
             THEN Response(HTTP_400_BAD_REQUEST, <<>>)
             ELSE Saved(HTTP_200_OK, <<RecipeRep(rs, pk)>>,
                        [Store EXCEPT !.recipes = rs,
                                      !.attrs = [attrs EXCEPT !["tag"] = t.table,
                                                              !["ingredient"] = g.table],
                                      !.nextAttr = [nextAttr EXCEPT !["tag"] = t.next,
                                                                    !["ingredient"] = g.next]])

\* DELETE /recipes/{pk}/
RecipeViewSet_destroy(u, pk) ==
    IF ~RecipeViewSet_get_object(u, pk) THEN Response(HTTP_404_NOT_FOUND, <<>>)
    ELSE Saved(HTTP_204_NO_CONTENT, <<>>,
               [Store EXCEPT !.recipes = Restrict(recipes, DOMAIN recipes \ {pk})])

\* An upload that saves the payload without validating it.
upload_image_unvalidated(u, pk, data) ==
    IF ~RecipeViewSet_get_object(u, pk) THEN Response(HTTP_404_NOT_FOUND, <<>>)
    ELSE Saved(HTTP_200_OK, <<[id |-> pk, image |-> data.image]>>,
               [Store EXCEPT !.recipes = [recipes EXCEPT ![pk].image = data.image]])

\* POST /recipes/{pk}/upload-image/
upload_image(u, pk, data) ==
    IF ~RecipeViewSet_get_object(u, pk) THEN Response(HTTP_404_NOT_FOUND, <<>>)
    ELSE IF RecipeImageSerializer_is_valid(data)
         THEN Saved(HTTP_200_OK, <<[id |-> pk, image |-> data.image]>>,
                    [Store EXCEPT !.recipes = [recipes EXCEPT ![pk].image = data.image]])
         ELSE Response(HTTP_400_BAD_REQUEST, <<>>)

----------------------------------------------------------------------------
(* int(), as the tag / ingredient viewsets apply it to `assigned_only` *)

DigitValue == [c \in {"0", "1", "2", "3", "4", "5", "6", "7", "8", "9"} |->
                 CASE c = "0" -> 0 [] c = "1" -> 1 [] c = "2" -> 2
                   [] c = "3" -> 3 [] c = "4" -> 4 [] c = "5" -> 5
                   [] c = "6" -> 6 [] c = "7" -> 7 [] c = "8" -> 8
                   [] OTHER -> 9]

RECURSIVE strip(_)
strip(text) ==
    IF text = <<>> THEN text
    ELSE IF Head(text) = " " THEN strip(Tail(text))
    ELSE IF text[Len(text)] = " " THEN strip(SubSeq(text, 1, Len(text) - 1))
    ELSE text

RECURSIVE digits(_, _)
digits(text, acc) ==
    IF text = <<>> THEN acc
    ELSE digits(Tail(text), 10 * acc + DigitValue[Head(text)])

\* int(text): [ok, value]; ok is FALSE where Python raises ValueError.
int(text) ==
    LET t == strip(text)
        signed == t # <<>> /\ Head(t) \in {"+", "-"}
        body == IF signed THEN Tail(t) ELSE t
    IN  IF body = <<>> \/ \E k \in DOMAIN body : body[k] \notin DOMAIN DigitValue
        THEN [ok |-> FALSE, value |-> 0]
        ELSE [ok |-> TRUE,
              value |-> IF signed /\ Head(t) = "-" THEN 0 - digits(body, 0)
                        ELSE digits(body, 0)]

\* bool(int(self.request.query_params.get('assigned_only', 0)))
assigned_only(param) ==
    LET n == IF param.given THEN int(param.text) ELSE [ok |-> TRUE, value |-> 0]
    IN  [ok |-> n.ok, value |-> n.ok /\ n.value # 0]

----------------------------------------------------------------------------
(* The tag / ingredient viewsets *)

AttrStore(a, rs) == [Store EXCEPT !.attrs = a, !.recipes = rs]

NameRank == [n \in AttrNames \cup {""} |->
               CASE n = "a" -> 1 [] n = "b" -> 2 [] OTHER -> 0]

\* A queryset of tags / ingredients: its result rows.  `join` is the recipe
\* a row of the join with the m2m relation came from, 0 where no join is made.
all(kind) == {[id |-> i, join |-> 0] : i \in DOMAIN attrs[kind]}

pks(qs) == {r.id : r \in qs}

\* queryset.filter(recipe__isnull=False): one row for each recipe a tag /
\* ingredient is attached to.
recipe__isnull_False(kind, qs) ==
    {[id |-> x[1].id, join |-> x[2]] :
        x \in {y \in qs \X DOMAIN recipes : y[1].id \in Rel(recipes[y[2]], kind)}}

\* queryset.filter(user=self.request.user)
filter_user(kind, qs, u) == {r \in qs : attrs[kind][r.id].user = u}

\* A queryset that keeps the rows of the join.
distinct_not_applied(qs) == qs

\* queryset.distinct(): SELECT DISTINCT over the columns of the model.
distinct(qs) == {[id |-> i, join |-> 0] : i \in pks(qs)}

\* ordering = ['-name'] (rows of equal name: by id)
AttrOrder(table, qs) ==
    CHOOSE s \in Perms(qs) :
        \A x, y \in DOMAIN s : x < y =>
            \/ NameRank[table[s[x].id].name] > NameRank[table[s[y].id].name]
            \/ /\ NameRank[table[s[x].id].name] = NameRank[table[s[y].id].name]
               /\ \/ s[x].id < s[y].id
                  \/ s[x].id = s[y].id /\ s[x].join < s[y].join

AttrListBody(table, qs) ==
    LET s == AttrOrder(table, qs) IN [k \in DOMAIN s |-> AttrRep(table, s[k].id)]

\* instance.delete(): the row and its rows of the m2m relation go.
delete(kind, pk) ==
    AttrStore([attrs EXCEPT ![kind] = Restrict(attrs[kind], DOMAIN attrs[kind] \ {pk})],
              [p \in DOMAIN recipes |->
                  IF kind = "tag"
                  THEN [recipes[p] EXCEPT !.tags = @ \ {pk}]
                  ELSE [recipes[p] EXCEPT !.ingredients = @ \ {pk}]])

\* serializer.save() of a valid update.
save(kind, pk, data) ==
    [attrs EXCEPT ![kind][pk].name =
        IF "name" \in data.fields THEN data.name ELSE @]

\* BaseRecipeAttrViewSet.get_queryset: [ok, rows]; ok is FALSE when int()
\* raises.
BaseRecipeAttrViewSet_get_queryset(kind, u, param) ==
    LET ao == assigned_only(param)
        queryset == all(kind)
        qs2 == IF ao.value THEN recipe__isnull_False(kind, queryset) ELSE queryset
    IN  [ok |-> ao.ok, rows |-> distinct(filter_user(kind, qs2, u))]

\* ListModelMixin.list
BaseRecipeAttrViewSet_list(kind, u, param) ==
    LET qs == BaseRecipeAttrViewSet_get_queryset(kind, u, param)
    IN  IF ~qs.ok THEN Response(HTTP_500_INTERNAL_SERVER_ERROR, <<>>)
        ELSE Response(HTTP_200_OK, AttrListBody(attrs[kind], qs.rows))

\* UpdateModelMixin.update
BaseRecipeAttrViewSet_update(kind, u, pk, param, data, partial) ==
    LET qs == BaseRecipeAttrViewSet_get_queryset(kind, u, param)
        a2 == save(kind, pk, data)
    IN  IF ~qs.ok THEN Response(HTTP_500_INTERNAL_SERVER_ERROR, <<>>)
        ELSE IF pk \notin pks(qs.rows) THEN Response(HTTP_404_NOT_FOUND, <<>>)
        ELSE IF ~AttrSerializer_is_valid(data, partial)
             THEN Response(HTTP_400_BAD_REQUEST, <<>>)
             ELSE Saved(HTTP_200_OK, <<AttrRep(a2[kind], pk)>>, AttrStore(a2, recipes))

\* UpdateModelMixin.partial_update
BaseRecipeAttrViewSet_partial_update(kind, u, pk, param, data) ==
    BaseRecipeAttrViewSet_update(kind, u, pk, param, data, TRUE)

\* DestroyModelMixin.destroy
BaseRecipeAttrViewSet_destroy(kind, u, pk, param) ==
    LET qs == BaseRecipeAttrViewSet_get_queryset(kind, u, param)
    IN  IF ~qs.ok THEN Response(HTTP_500_INTERNAL_SERVER_ERROR, <<>>)
        ELSE IF pk \notin pks(qs.rows) THEN Response(HTTP_404_NOT_FOUND, <<>>)
        ELSE Saved(HTTP_204_NO_CONTENT, <<>>, delete(kind, pk))

\* A hand-written get_queryset that ignores assigned_only.
BaseRecipeAttrMixClearViewSet_get_queryset_all(kind, u, param) ==
    LET ao == assigned_only(param)
    IN  [ok |-> ao.ok, rows |-> distinct(filter_user(kind, all(kind), u))]

\* BaseRecipeAttrMixClearViewSet.get_queryset: [ok, rows]
BaseRecipeAttrMixClearViewSet_get_queryset(kind, u, param) ==
    LET ao == assigned_only(param)
        queryset == all(kind)
        qs2 == IF ao.value THEN recipe__isnull_False(kind, queryset) ELSE queryset
    IN  [ok |-> ao.ok, rows |-> distinct(filter_user(kind, qs2, u))]

\* BaseRecipeAttrMixClearViewSet.update
BaseRecipeAttrMixClearViewSet_update(kind, u, pk, param, data, partial) ==
    LET qs == BaseRecipeAttrMixClearViewSet_get_queryset(kind, u, param)
        a2 == save(kind, pk, data)
    IN  IF ~qs.ok THEN Response(HTTP_500_INTERNAL_SERVER_ERROR, <<>>)
        ELSE IF pk \notin pks(qs.rows) THEN Response(HTTP_404_NOT_FOUND, <<>>)
        ELSE IF ~AttrSerializer_is_valid(data, partial)
             THEN Response(HTTP_400_BAD_REQUEST, <<>>)
             ELSE Saved(HTTP_200_OK, <<AttrRep(a2[kind], pk)>>, AttrStore(a2, recipes))

\* BaseRecipeAttrMixClearViewSet.partial_update
BaseRecipeAttrMixClearViewSet_partial_update(kind, u, pk, param, data) ==
    BaseRecipeAttrMixClearViewSet_update(kind, u, pk, param, data, TRUE)

\* BaseRecipeAttrMixClearViewSet.destroy
BaseRecipeAttrMixClearViewSet_destroy(kind, u, pk, param) ==
    LET qs == BaseRecipeAttrMixClearViewSet_get_queryset(kind, u, param)
    IN  IF ~qs.ok THEN Response(HTTP_500_INTERNAL_SERVER_ERROR, <<>>)
        ELSE IF pk \notin pks(qs.rows) THEN Response(HTTP_404_NOT_FOUND, <<>>)
        ELSE Saved(HTTP_204_NO_CONTENT, <<>>, delete(kind, pk))

\* BaseRecipeAttrMixClearViewSet.list
BaseRecipeAttrMixClearViewSet_list(kind, u, param) ==
    LET qs == BaseRecipeAttrMixClearViewSet_get_queryset(kind, u, param)
    IN  IF ~qs.ok THEN Response(HTTP_500_INTERNAL_SERVER_ERROR, <<>>)
        ELSE Response(HTTP_200_OK, AttrListBody(attrs[kind], qs.rows))

\* GET on the detail route: neither base class has a retrieve handler, so
\* the method is not allowed.
Attr_retrieve(kind, u, pk) == Response(HTTP_405_METHOD_NOT_ALLOWED, <<>>)

Mixin == "mixin"      \* TagViewSet, IngredientViewSet
NoMix == "nomix"      \* TagNoMixViewSet, IngredientNoMixViewSet
Impls == {Mixin, NoMix}

\* The four routes of a tag / ingredient viewset.
Attr_list(impl, kind, u, param) ==
    IF impl = Mixin THEN BaseRecipeAttrViewSet_list(kind, u, param)
    ELSE BaseRecipeAttrMixClearViewSet_list(kind, u, param)

Attr_update(impl, kind, u, pk, param, data) ==
    IF impl = Mixin THEN BaseRecipeAttrViewSet_update(kind, u, pk, param, data, FALSE)
    ELSE BaseRecipeAttrMixClearViewSet_update(kind, u, pk, param, data, FALSE)

Attr_partial_update(impl, kind, u, pk, param, data) ==
    IF impl = Mixin THEN BaseRecipeAttrViewSet_partial_update(kind, u, pk, param, data)
    ELSE BaseRecipeAttrMixClearViewSet_partial_update(kind, u, pk, param, data)

Attr_destroy(impl, kind, u, pk, param) ==
    IF impl = Mixin THEN BaseRecipeAttrViewSet_destroy(kind, u, pk, param)
    ELSE BaseRecipeAttrMixClearViewSet_destroy(kind, u, pk, param)

----------------------------------------------------------------------------
(* user/views.py: the "me" views *)

\* A get_object that does not follow the token.
get_object_fixed(u) == "u1"

\* ManageUserView.get_object
get_object(u) == u

\* serializer.save() on the instance the view passed in.
UserSerializer_save(instance, data) ==
    [users EXCEPT ![instance].name =
        IF "name" \in data.fields THEN data.name ELSE @]

\* ManageUserView: RetrieveUpdateAPIView.get
ManageUserView_get(u) ==
    Response(HTTP_200_OK, <<UserRep(users, get_object(u))>>)

\* ManageUserView: RetrieveUpdateAPIView.put / patch
ManageUserView_update(u, data, partial) ==
    LET instance == get_object(u)
        saved == UserSerializer_save(instance, data)
    IN  IF ~UserSerializer_is_valid(data, partial)
        THEN Response(HTTP_400_BAD_REQUEST, <<>>)
        ELSE Saved(HTTP_200_OK, <<UserRep(saved, instance)>>,
                   [Store EXCEPT !.users = saved])

\* ManageUserApiView.get
ManageUserApiView_get(u) == Response(HTTP_200_OK, <<UserRep(users, u)>>)

\* ManageUserApiView.put
ManageUserApiView_put(u, data) ==
    LET saved == UserSerializer_save(u, data)
    IN  IF ~UserSerializer_is_valid(data, FALSE)
        THEN Response(HTTP_400_BAD_REQUEST, <<>>)
        ELSE Saved(HTTP_200_OK, <<UserRep(saved, u)>>, [Store EXCEPT !.users = saved])

\* ManageUserApiView.patch
ManageUserApiView_patch(u, data) ==
    LET saved == UserSerializer_save(u, data)
    IN  IF ~UserSerializer_is_valid(data, TRUE)
        THEN Response(HTTP_400_BAD_REQUEST, <<>>)
        ELSE Saved(HTTP_200_OK, <<UserRep(saved, u)>>, [Store EXCEPT !.users = saved])

Generic == "me"            \* path('me/', ManageUserView)
ApiView == "me-api-view"   \* path('me-api-view/', ManageUserApiView)
MeViews == {Generic, ApiView}

Me_get(view, u) ==
    IF view = Generic THEN ManageUserView_get(u) ELSE ManageUserApiView_get(u)

Me_put(view, u, data) ==
    IF view = Generic THEN ManageUserView_update(u, data, FALSE)
    ELSE ManageUserApiView_put(u, data)

Me_patch(view, u, data) ==
    IF view = Generic THEN ManageUserView_update(u, data, TRUE)
    ELSE ManageUserApiView_patch(u, data)

----------------------------------------------------------------------------
(* The requests: authentication, then the handler *)

RecipeList(auth, q) == Handle("recipe.list", dispatch(auth, RecipeViewSet_list(auth, q)))

RecipeCreate(auth, data) ==
    Handle("recipe.create", dispatch(auth, RecipeViewSet_create(auth, data)))

RecipeRetrieve(auth, pk) ==
    Handle("recipe.retrieve", dispatch(auth, RecipeViewSet_retrieve(auth, pk)))

RecipeUpdate(auth, pk, data) ==
    Handle("recipe.update", dispatch(auth, RecipeViewSet_update(auth, pk, data, FALSE)))

RecipePartialUpdate(auth, pk, data) ==
    Handle("recipe.partial_update",
           dispatch(auth, RecipeViewSet_update(auth, pk, data, TRUE)))

RecipeDestroy(auth, pk) ==
    Handle("recipe.destroy", dispatch(auth, RecipeViewSet_destroy(auth, pk)))

RecipeUploadImage(auth, pk, data) ==
    Handle("recipe.upload_image", dispatch(auth, upload_image(auth, pk, data)))

AttrList(impl, kind, auth, param) ==
    Handle("attr.list", dispatch(auth, Attr_list(impl, kind, auth, param)))

AttrUpdate(impl, kind, auth, pk, param, data) ==
    Handle("attr.update", dispatch(auth, Attr_update(impl, kind, auth, pk, param, data)))

AttrPartialUpdate(impl, kind, auth, pk, param, data) ==
    Handle("attr.partial_update",
           dispatch(auth, Attr_partial_update(impl, kind, auth, pk, param, data)))

AttrDestroy(impl, kind, auth, pk, param) ==
    Handle("attr.destroy", dispatch(auth, Attr_destroy(impl, kind, auth, pk, param)))

AttrRetrieve(impl, kind, auth, pk) ==
    Handle("attr.retrieve", dispatch(auth, Attr_retrieve(kind, auth, pk)))

MeGet(view, auth) == Handle(view \o ".get", dispatch(auth, Me_get(view, auth)))

MePut(view, auth, data) ==
    Handle(view \o ".put", dispatch(auth, Me_put(view, auth, data)))

MePatch(view, auth, data) ==
    Handle(view \o ".patch", dispatch(auth, Me_patch(view, auth, data)))

----------------------------------------------------------------------------
(* The requests the clients send *)

TagLists == {<<>>, <<"a">>}
IngredientLists == {<<>>, <<"a">>}

RecipeBody(tm, pr, tg, ig) ==
    [NoData EXCEPT !.fields = RecipeFields, !.title = "pie",
                   !.time_minutes = tm, !.price = pr,
                   !.tags = tg, !.ingredients = ig]

\* A body without a title.
Untitled == [NoData EXCEPT !.fields = RecipeFields, !.time_minutes = 1, !.price = 1]

RecipeBodies ==
    {RecipeBody(tm, pr, tg, ig) :
        tm \in Times, pr \in Prices, tg \in TagLists, ig \in IngredientLists}
    \cup {Untitled}

Retag(tg) == [NoData EXCEPT !.fields = {"tags"}, !.tags = tg]

RecipePatches ==
    {[NoData EXCEPT !.fields = {"time_minutes"}, !.time_minutes = tm] : tm \in Times}
    \cup {[NoData EXCEPT !.fields = {"price"}, !.price = pr] : pr \in Prices}
    \cup {Retag(tg) : tg \in TagLists}
    \cup {[NoData EXCEPT !.fields = {"ingredients"}, !.ingredients = ig] :
             ig \in IngredientLists}
    \cup {[NoData EXCEPT !.fields = {"title"}]}

NoTags == [NoData EXCEPT !.fields = {"tags", "ingredients"}]

Rename(n) == [NoData EXCEPT !.fields = {"name"}, !.name = n]
AttrBodies == {Rename(n) : n \in AttrNames \cup {""}} \cup {NoData}

\* The body of a "me" update may name another account beside the new name.
UserBodies ==
    {[NoData EXCEPT !.fields = {"name", "user"}, !.name = n, !.user = v] :
        n \in ProfileNames \cup {""}, v \in Users}
    \cup {NoData}

Upload(f) == [NoData EXCEPT !.fields = {"image"}, !.image = f]
ImageBodies == {Upload(ImageFile), Upload(TextFile), NoData}

Unparseable == {Param(<<"a", "b", "c">>), Param(<<>>)}
AssignedOnlyParams ==
    {NoParam, Param(<<"0">>), Param(<<"1">>)} \cup Unparseable

OrderingParams ==
    {<<>>} \cup {<<Term(d, f)>> :
                    d \in BOOLEAN, f \in {"id", "time_minutes", "price"}}

RecipeIds == 1..MaxRecipes
TagIds == 1..MaxTags
IngredientIds == 1..MaxIngredients
AttrIds(kind) == 1..MaxAttr(kind)

Queries ==
    {Query(t, g, o) : t \in SUBSET TagIds, g \in SUBSET IngredientIds,
                      o \in OrderingParams}

\* The tag and ingredient endpoints of both implementations, and the recipe
\* requests that attach and detach tags and ingredients.
Next ==
    \/ \E a \in Users : RecipeList(a, Query({}, {}, <<>>))
    \/ \E a \in Users, tg \in TagLists, ig \in IngredientLists :
          RecipeCreate(a, RecipeBody(1, 1, tg, ig))
    \/ \E a \in Users, pk \in RecipeIds : RecipePartialUpdate(a, pk, NoTags)
    \/ \E a \in Users, pk \in RecipeIds : RecipeDestroy(a, pk)
    \/ \E i \in Impls, k \in Kinds, a \in Users,
          p \in {NoParam, Param(<<"1">>), Param(<<"a", "b", "c">>)} :
          AttrList(i, k, a, p)
    \/ \E i \in Impls, k \in Kinds, a \in Users, d \in {Rename("b"), Rename("")} :
          \E pk \in AttrIds(k) : AttrUpdate(i, k, a, pk, NoParam, d)
    \/ \E i \in Impls, k \in Kinds, a \in Users, p \in {NoParam, Param(<<>>)} :
          \E pk \in AttrIds(k) : AttrPartialUpdate(i, k, a, pk, p, Rename("b"))
    \/ \E i \in Impls, k \in Kinds, a \in Users :
          \E pk \in AttrIds(k) : AttrDestroy(i, k, a, pk, NoParam)
    \/ \E i \in Impls, k \in Kinds, a \in Users :
          \E pk \in AttrIds(k) : AttrRetrieve(i, k, a, pk)

Spec == Init /\ [][Next]_vars

\* The tag and ingredient lists, and the requests that attach, detach,
\* rename and remove tags and ingredients.
NextAssigned ==
    \/ \E a \in Users, tg \in TagLists, ig \in IngredientLists :
          RecipeCreate(a, RecipeBody(1, 1, tg, ig))
    \/ \E a \in Users, pk \in RecipeIds, d \in {NoTags, Retag(<<"b">>)} :
          RecipePartialUpdate(a, pk, d)
    \/ \E a \in Users, pk \in RecipeIds : RecipeDestroy(a, pk)
    \/ \E i \in Impls, k \in Kinds, a \in Users, p \in AssignedOnlyParams :
          AttrList(i, k, a, p)
    \/ \E i \in Impls, k \in Kinds, a \in Users :
          \E pk \in AttrIds(k) : AttrPartialUpdate(i, k, a, pk, NoParam, Rename("b"))
    \/ \E i \in Impls, k \in Kinds, a \in Users :
          \E pk \in AttrIds(k) : AttrDestroy(i, k, a, pk, NoParam)

SpecAssigned == Init /\ [][NextAssigned]_vars

\* The requests that create, change and remove what the two users own, and the
\* unfiltered lists.
NextOwnership ==
    \/ \E a \in Users : RecipeList(a, Query({}, {}, <<>>))
    \/ \E a \in Users,
          d \in {RecipeBody(1, 1, <<"a">>, <<>>), RecipeBody(1, 1, <<"a">>, <<"a">>)} :
          RecipeCreate(a, d)
    \/ \E a \in Users, pk \in RecipeIds : RecipePartialUpdate(a, pk, NoTags)
    \/ \E a \in Users, pk \in RecipeIds : RecipeDestroy(a, pk)
    \/ \E a \in Users, pk \in RecipeIds : RecipeUploadImage(a, pk, Upload(ImageFile))
    \/ \E i \in Impls, k \in Kinds, a \in Users : AttrList(i, k, a, NoParam)
    \/ \E i \in Impls, k \in Kinds, a \in Users :
          \E pk \in AttrIds(k) : AttrUpdate(i, k, a, pk, NoParam, Rename("b"))
    \/ \E i \in Impls, k \in Kinds, a \in Users :
          \E pk \in AttrIds(k) : AttrDestroy(i, k, a, pk, NoParam)

SpecOwnership == Init /\ [][NextOwnership]_vars

\* The recipe endpoints, with their filter and ordering parameters.
NextRecipe ==
    \/ \E a \in Users, o \in OrderingParams : RecipeList(a, Query({}, {}, o))
    \/ \E a \in Users, t \in SUBSET TagIds, g \in SUBSET IngredientIds :
          RecipeList(a, Query(t, g, <<>>))
    \/ \E a \in Users, tm \in Times, tg \in TagLists, ig \in IngredientLists :
          RecipeCreate(a, RecipeBody(tm, 3 - tm, tg, ig))
    \/ \E a \in Users : RecipeCreate(a, Untitled)
    \/ \E a \in Users, pk \in RecipeIds : RecipeRetrieve(a, pk)
    \/ \E a \in Users, pk \in RecipeIds,
          d \in {RecipeBody(2, 1, <<>>, <<"a">>), Untitled} :
          RecipeUpdate(a, pk, d)
    \/ \E a \in Users, pk \in RecipeIds : RecipePartialUpdate(a, pk, NoTags)
    \/ \E a \in Users, pk \in RecipeIds : RecipeDestroy(a, pk)
    \/ \E a \in Users, pk \in RecipeIds, d \in ImageBodies : RecipeUploadImage(a, pk, d)

SpecRecipe == Init /\ [][NextRecipe]_vars

\* The "me" endpoints.
NextUser ==
    \/ \E v \in MeViews, a \in Credentials : MeGet(v, a)
    \/ \E v \in MeViews, a \in Credentials, d \in UserBodies : MePut(v, a, d)
    \/ \E v \in MeViews, a \in Credentials, d \in UserBodies : MePatch(v, a, d)

SpecUser == Init /\ [][NextUser]_vars

\* Every endpoint, under the requests of a user and of clients without a
\* valid token.
Clients == {"u1"} \cup Anonymous

NextAuth ==
    \/ \E a \in Clients : RecipeList(a, Query({}, {}, <<>>))
    \/ \E a \in Clients : RecipeCreate(a, RecipeBody(1, 1, <<"a">>, <<"a">>))
    \/ \E a \in Clients, pk \in RecipeIds : RecipeRetrieve(a, pk)
    \/ \E a \in Clients, pk \in RecipeIds :
          RecipeUpdate(a, pk, RecipeBody(1, 1, <<"a">>, <<"a">>))
    \/ \E a \in Clients, pk \in RecipeIds : RecipePartialUpdate(a, pk, NoTags)
    \/ \E a \in Clients, pk \in RecipeIds : RecipeDestroy(a, pk)
    \/ \E a \in Clients, pk \in RecipeIds :
          RecipeUploadImage(a, pk, Upload(ImageFile))
    \/ \E i \in Impls, k \in Kinds, a \in Clients : AttrList(i, k, a, NoParam)
    \/ \E i \in Impls, k \in Kinds, a \in Clients :
          \E pk \in AttrIds(k) : AttrUpdate(i, k, a, pk, NoParam, Rename("b"))
    \/ \E i \in Impls, k \in Kinds, a \in Clients :
          \E pk \in AttrIds(k) : AttrPartialUpdate(i, k, a, pk, NoParam, Rename("b"))
    \/ \E i \in Impls, k \in Kinds, a \in Clients :
          \E pk \in AttrIds(k) : AttrDestroy(i, k, a, pk, NoParam)
    \/ \E i \in Impls, k \in Kinds, a \in Clients :
          \E pk \in AttrIds(k) : AttrRetrieve(i, k, a, pk)
    \/ \E v \in MeViews, a \in Clients : MeGet(v, a)
    \/ \E v \in MeViews, a \in Clients : MePut(v, a, Rename("n2"))
    \/ \E v \in MeViews, a \in Clients : MePatch(v, a, Rename("n2"))

SpecAuth == Init /\ [][NextAuth]_vars

----------------------------------------------------------------------------
(* The claims *)

Ids(body) == {body[k].id : k \in DOMAIN body}
Owned(table, u) == {i \in DOMAIN table : table[i].user = u}
NoRecipeParams == Query({}, {}, <<>>)

Matches(i, T, I) ==
    /\ T # {} => recipes[i].tags \cap T # {}
    /\ I # {} => recipes[i].ingredients \cap I # {}

\* C2: a recipe list request of U with tags=T and / or ingredients=I returns
\* exactly U's recipes whose tags meet T and whose ingredients meet I, each
\* of them once.
RecipeListFiltering ==
    \A u \in Users, T \in SUBSET TagIds, I \in SUBSET IngredientIds :
        LET r == RecipeViewSet_list(u, Query(T, I, <<>>))
        IN  /\ r.status = HTTP_200_OK
            /\ Ids(r.body) = {i \in Owned(recipes, u) : Matches(i, T, I)}
            /\ Len(r.body) = Cardinality(Ids(r.body))

Attached(kind, i) == \E p \in DOMAIN recipes : i \in Rel(recipes[p], kind)

Exactly(r, ids) ==
    /\ r.status = HTTP_200_OK
    /\ Ids(r.body) = ids
    /\ Len(r.body) = Cardinality(ids)

NotFound(r) == r.status = HTTP_404_NOT_FOUND /\ r.store = Store

\* C4: a detail request (retrieve, PUT, PATCH, DELETE, upload-image) of U on
\* a recipe, tag or ingredient another user owns is answered 404 and changes
\* nothing stored.
CrossUserDetailNotFound ==
    \A u \in Users :
        /\ \A pk \in DOMAIN recipes \ Owned(recipes, u) :
              /\ NotFound(RecipeViewSet_retrieve(u, pk))
              /\ NotFound(RecipeViewSet_destroy(u, pk))
              /\ \A d \in RecipeBodies : NotFound(RecipeViewSet_update(u, pk, d, FALSE))
              /\ \A d \in RecipePatches : NotFound(RecipeViewSet_update(u, pk, d, TRUE))
              /\ \A d \in ImageBodies : NotFound(upload_image(u, pk, d))
        /\ \A impl \in Impls, kind \in Kinds :
              \A pk \in DOMAIN attrs[kind] \ Owned(attrs[kind], u) :
                 \A p \in AssignedOnlyParams :
                    /\ NotFound(Attr_destroy(impl, kind, u, pk, p))
                    /\ \A d \in AttrBodies :
                          /\ NotFound(Attr_update(impl, kind, u, pk, p, d))
                          /\ NotFound(Attr_partial_update(impl, kind, u, pk, p, d))
                    /\ NotFound(Attr_retrieve(kind, u, pk))

\* C5: on both "me" views GET with U's token returns U's record, and PUT /
\* PATCH with U's token change no record but U's, whatever the body holds.
MeIsTheTokenUser ==
    \A v \in MeViews, u \in Users :
        /\ LET r == Me_get(v, u)
           IN  /\ r.status = HTTP_200_OK
               /\ r.body = <<[email |-> u, name |-> users[u].name]>>
               /\ r.store = Store
        /\ \A d \in UserBodies :
              /\ \A w \in Users \ {u} :
                    /\ Me_put(v, u, d).store.users[w] = users[w]
                    /\ Me_patch(v, u, d).store.users[w] = users[w]
              /\ Me_put(v, u, d).status = HTTP_200_OK =>
                    Me_put(v, u, d).body[1].email = u
              /\ Me_patch(v, u, d).status = HTTP_200_OK =>
                    Me_patch(v, u, d).body[1].email = u

\* A PUT on the generic view has renamed the second user and left the first
\* as it was.
MeIsTheTokenUserWitness ==
    /\ last = [op |-> "me.put", status |-> HTTP_200_OK]
    /\ users["u2"].name = "n2"
    /\ users["u1"].name = "n1"

ViewSetsEquivalent ==
    \A kind \in Kinds, u \in Users, p \in AssignedOnlyParams :
        /\ BaseRecipeAttrViewSet_list(kind, u, p)
              = BaseRecipeAttrMixClearViewSet_list(kind, u, p)
        /\ \A pk \in AttrIds(kind) :
              /\ BaseRecipeAttrViewSet_destroy(kind, u, pk, p)
                    = BaseRecipeAttrMixClearViewSet_destroy(kind, u, pk, p)
              /\ \A d \in AttrBodies :
                    /\ BaseRecipeAttrViewSet_update(kind, u, pk, p, d, FALSE)
                          = BaseRecipeAttrMixClearViewSet_update(kind, u, pk, p, d, FALSE)
                    /\ BaseRecipeAttrViewSet_partial_update(kind, u, pk, p, d)
                          = BaseRecipeAttrMixClearViewSet_partial_update(kind, u, pk, p, d)

\* A tag has been deleted while another, renamed by an update, is attached
\* to no recipe.
ViewSetsEquivalentWitness ==
    /\ last = [op |-> "attr.destroy", status |-> HTTP_204_NO_CONTENT]
    /\ nextAttr["tag"] = 3
    /\ \E i \in DOMAIN attrs["tag"] :
          attrs["tag"][i].name = "b" /\ ~Attached("tag", i)

Refused(r) == r.status = HTTP_401_UNAUTHORIZED /\ r.store = Store

Sorted(body, field, desc) ==
    \A x, y \in DOMAIN body : x < y =>
        IF desc THEN body[x][field] >= body[y][field]
        ELSE body[x][field] <= body[y][field]

\* C9: without `ordering` the recipes of a list are in descending id order;
\* with `ordering` set to id, time_minutes or price, with or without `-`,
\* they are sorted by that field in that direction.
RecipeListOrdering ==
    \A u \in Users :
        /\ LET r == RecipeViewSet_list(u, NoRecipeParams)
           IN  r.status = HTTP_200_OK /\ Sorted(r.body, "id", TRUE)
        /\ \A desc \in BOOLEAN, f \in {"id", "time_minutes", "price"} :
              LET r == RecipeViewSet_list(u, Query({}, {}, <<Term(desc, f)>>))
              IN  /\ r.status = HTTP_200_OK
                  /\ Ids(r.body) = Owned(recipes, u)
                  /\ Sorted(r.body, f, desc)

\* C10: a tag / ingredient list, update or delete request whose
\* assigned_only value is no integer is answered 400, and changes nothing
\* stored.
UnparseableAssignedOnlyRejected ==
    \A impl \in Impls, kind \in Kinds, u \in Users, p \in Unparseable :
        /\ Attr_list(impl, kind, u, p).status = HTTP_400_BAD_REQUEST
        /\ \A pk \in Owned(attrs[kind], u) :
              /\ Attr_destroy(impl, kind, u, pk, p).status = HTTP_400_BAD_REQUEST
              /\ Attr_destroy(impl, kind, u, pk, p).store = Store
              /\ \A d \in AttrBodies :
                    /\ Attr_update(impl, kind, u, pk, p, d).status = HTTP_400_BAD_REQUEST
                    /\ Attr_update(impl, kind, u, pk, p, d).store = Store
                    /\ Attr_partial_update(impl, kind, u, pk, p, d).status
                          = HTTP_400_BAD_REQUEST
                    /\ Attr_partial_update(impl, kind, u, pk, p, d).store = Store

====
